---- MODULE Spec2Model ----
(***************************************************************************)
(* A model of generator.py: residue encoding, contact-map and chain        *)
(* adjacency construction, the GCNDataset sample builder and its storage   *)
(* modes, the evaluation pass val, and the train / save / load cycle of    *)
(* main.                                                                   *)
(*                                                                         *)
(* numpy arrays are functions over 0..n-1, so that positions keep the      *)
(* indices the code uses.  Random draws of the seeded generator are        *)
(* nondeterministic choices over every value the draw can return.          *)
(***************************************************************************)
EXTENDS Integers, Sequences, FiniteSets

VARIABLES
    \* ---- residue encoding: one call of a2id followed by id2a
    aa,             \* the letter handed to a2id
    aid,            \* the id a2id returned (-1 before the call)
    letter,         \* the letter id2a returned ("" before the call)
    enc_pc,         \* "call" | "encoded" | "decoded" | "KeyError"
    \* ---- make_contact_map: one call
    ca_coors,       \* N x 3 coordinates
    mask,           \* {} for None, {m} for a boolean vector m
    cutoff,         \* the distance threshold
    cont_map,       \* the returned N x N boolean matrix
    cm_pc,          \* "call" | "ret" | "ValueError"
    \* ---- GCNDataset: the constructor's arguments and the object's fields
    table,          \* the record store at df_path: [rows, has_standard, has_coors]
    df_path,        \* TRUE when a df_path is given, FALSE for None
    arg_n,          \* the constructor's argument n
    n,              \* self.n
    max_buf_size,   \* self.max_buf_size
    seq_len_range,  \* self.seq_len_range, <<min_len, max_len>>
    h5,             \* TRUE when an h5 directory is given, FALSE for None
    build_on_the_fly, \* self.build_on_the_fly
    df,             \* self.df: the rows kept, in order
    idxs,           \* self.idxs, or the blobs idxs_{i} of the h5 file
    gt_idxs,        \* self.gt_idxs, or the blobs gt_idxs_{i} of the h5 file
    build_i,        \* the loop counter i of build_all
    built,          \* what the last call of build_one returned
    item,           \* what the last call of __getitem__ returned
    ds_pc,          \* "new" | "build_all" | "ready" | "ValueError" | "IndexError"
    \* ---- val: one call val(model, dataset, reverse_seq=...)
    reverse_seq,    \* the argument reverse_seq
    val_j,          \* the loop counter j
    val_idxs,       \* idxs: the predicted order of the sample at hand
    acc_all,        \* the sum of the samples' scores, a fraction <<num, den>>
    val_acc,        \* the accuracy returned, a fraction <<num, den>>
    all_forward,    \* whether every order the model returned so far was the
                    \* sample's gt_idxs
    all_exact,      \* whether every order the model returned so far was the
                    \* sample's gt_idxs or its reverse
    val_pc,         \* "call" | "loop" | "item" | "idxs" | "final" | "ret" | an exception
    \* ---- main and train: runs of the program, one after the other
    run,            \* the number of runs of main started
    args,           \* the run's arguments: model, save, skip_training, n_epoch
    train_len,      \* len(train_dataset)
    val_len,        \* len(val_dataset)
    log_every,      \* train's parameter log_every
    val_every,      \* train's parameter val_every
    params,         \* the model's parameters: the optimizer steps behind them
    seen,           \* model.seen
    epoch_i,        \* train's loop counter i
    sample_j,       \* train's loop counter j
    log_train,      \* log["train"]: the seen of each record, in order
    ckpt,           \* the checkpoint file: {} when absent, {p} holding parameters p
    saved_seen,     \* model.seen at the time the checkpoint file was written
    main_pc         \* "shell" | "constructed" | "loaded" | "train" | "trained" |
                    \* "final_val" | "exit" | "ZeroDivisionError"

encVars == <<aa, aid, letter, enc_pc>>
cmVars == <<ca_coors, mask, cutoff, cont_map, cm_pc>>
dsVars == <<table, df_path, arg_n, n, max_buf_size, seq_len_range, h5, build_on_the_fly,
           df, idxs, gt_idxs, build_i, built, item, ds_pc>>
valVars == <<reverse_seq, val_j, val_idxs, acc_all, val_acc, all_forward, all_exact, val_pc>>
mainVars == <<run, args, train_len, val_len, log_every, val_every, params, seen,
             epoch_i, sample_j, log_train, ckpt, saved_seen, main_pc>>
vars == <<encVars, cmVars, dsVars, valVars, mainVars>>

(***************************************************************************)
(* numpy helpers                                                           *)
(***************************************************************************)
\* the index set of an array of length n
Idx(k) == 0 .. (k - 1)

\* len() of an array
Len0(a) == Cardinality(DOMAIN a)

\* the empty array
Empty == [i \in {} |-> 0]

(***************************************************************************)
(* Residue encoding                                                        *)
(***************************************************************************)
UpperLetters ==
    <<"A", "B", "C", "D", "E", "F", "G", "H", "I", "J", "K", "L", "M",
      "N", "O", "P", "Q", "R", "S", "T", "U", "V", "W", "X", "Y", "Z">>

LowerLetters ==
    <<"a", "b", "c", "d", "e", "f", "g", "h", "i", "j", "k", "l", "m",
      "n", "o", "p", "q", "r", "s", "t", "u", "v", "w", "x", "y", "z">>

Letters == {UpperLetters[i] : i \in DOMAIN UpperLetters}
              \cup {LowerLetters[i] : i \in DOMAIN LowerLetters}

\* str.upper() on a one-letter string
upper(c) ==
    IF \E i \in DOMAIN LowerLetters : LowerLetters[i] = c
    THEN UpperLetters[CHOOSE i \in DOMAIN LowerLetters : LowerLetters[i] = c]
    ELSE c

\* the lookup table of a2id
a2id_table ==
    [A |-> 0, R |-> 1, N |-> 2, D |-> 3, C |-> 4, E |-> 5, Q |-> 6, G |-> 7,
     H |-> 8, I |-> 9, L |-> 10, K |-> 11, M |-> 12, F |-> 13, P |-> 14,
     S |-> 15, T |-> 16, W |-> 17, Y |-> 18, V |-> 19, X |-> 19]

\* a2id raises KeyError (a LookupError) on a letter the table does not hold
a2id_raises(c) == upper(c) \notin DOMAIN a2id_table

a2id(c) == a2id_table[upper(c)]

\* the lookup table of id2a; the Python list index i is position i + 1 here
id2a_table ==
    <<"A", "R", "N", "D", "C", "E", "Q", "G", "H", "I",
      "L", "K", "M", "F", "P", "S", "T", "W", "Y", "V",
      "X">>

id2a(i) == id2a_table[i + 1]

\* the 20 standard residue letters, and the placeholder for an unknown residue
StandardLetters ==
    {"A", "R", "N", "D", "C", "E", "Q", "G", "H", "I",
     "L", "K", "M", "F", "P", "S", "T", "W", "Y", "V"}

UnknownLetter == "X"

EncInit ==
    /\ aa \in Letters
    /\ aid = -1
    /\ letter = ""
    /\ enc_pc = "call"

EncIdle ==
    /\ aa = "A"
    /\ aid = -1
    /\ letter = ""
    /\ enc_pc = "idle"

\* a2id(aa), as build_one calls it on each character of a corpus sequence
Encode ==
    /\ enc_pc = "call"
    /\ IF a2id_raises(aa)
       THEN /\ enc_pc' = "KeyError"
            /\ aid' = aid
       ELSE /\ enc_pc' = "encoded"
            /\ aid' = a2id(aa)
    /\ UNCHANGED <<aa, letter>>
    /\ UNCHANGED <<cmVars, dsVars, valVars, mainVars>>

\* id2a(aid), as val calls it on each class id when it prints a sequence
Decode ==
    /\ enc_pc = "encoded"
    /\ letter' = id2a(aid)
    /\ enc_pc' = "decoded"
    /\ UNCHANGED <<aa, aid>>
    /\ UNCHANGED <<cmVars, dsVars, valVars, mainVars>>

(***************************************************************************)
(* make_contact_map                                                        *)
(***************************************************************************)
\* the largest number of points of one call
MaxPts == 3

\* the default threshold of make_contact_map
DefaultCutoff == 4

\* the thresholds tried: the default, and one larger
Cutoffs == {DefaultCutoff, DefaultCutoff + 1}

\* the points the coordinates are drawn from; their distances to the origin
\* are 0, 3, 4, 5 and 3, and <<3,0,0>> to <<4,0,0>> is 1
Points == {<<0, 0, 0>>, <<3, 0, 0>>, <<4, 0, 0>>, <<0, 3, 4>>, <<1, 2, 2>>}

Sq(x) == x * x

\* the squared Euclidean norm of p - q
SqDist(p, q) == Sq(p[1] - q[1]) + Sq(p[2] - q[2]) + Sq(p[3] - q[3])

\* the threshold with <= for <
NormLessEq(p, q, c) == c > 0 /\ SqDist(p, q) <= Sq(c)

\* np.linalg.norm(p - q) < c, decided on the squares: the norm is >= 0
NormLess(p, q, c) == c > 0 /\ SqDist(p, q) < Sq(c)

\* dist_map < cutoff
Threshold(coors, c) ==
    [i \in DOMAIN coors |-> [j \in DOMAIN coors |-> NormLess(coors[j], coors[i], c)]]

\* cont_map[~mask, :] = False
MaskRows(cm, m) ==
    [i \in DOMAIN cm |-> [j \in DOMAIN cm |-> IF ~m[i] THEN FALSE ELSE cm[i][j]]]

\* cont_map[:, ~mask] = False
MaskCols(cm, m) ==
    [i \in DOMAIN cm |-> [j \in DOMAIN cm |-> IF ~m[j] THEN FALSE ELSE cm[i][j]]]

\* cont_map[~mask, ~mask] = True: two boolean index arrays pair up elementwise,
\* so the entries assigned are (i, i) for the masked-out i
MaskDiag(cm, m) ==
    [i \in DOMAIN cm |-> [j \in DOMAIN cm |-> IF i = j /\ ~m[i] THEN TRUE ELSE cm[i][j]]]

\* np.max / np.min of an empty array raise ValueError
make_contact_map_raises(coors) == DOMAIN coors = {}

make_contact_map(coors, msk, c) ==
    IF msk = {}
    THEN Threshold(coors, c)
    ELSE LET m == CHOOSE x \in msk : TRUE
         IN  MaskDiag(MaskCols(MaskRows(Threshold(coors, c), m), m), m)

CmInit ==
    /\ \E k \in 0 .. MaxPts :
          /\ ca_coors \in [Idx(k) -> Points]
          /\ mask \in {{}} \cup {{m} : m \in [Idx(k) -> BOOLEAN]}
    /\ cutoff \in Cutoffs
    /\ cont_map = Empty
    /\ cm_pc = "call"

CmIdle ==
    /\ ca_coors = Empty
    /\ mask = {}
    /\ cutoff = DefaultCutoff
    /\ cont_map = Empty
    /\ cm_pc = "idle"

\* one call make_contact_map(ca_coors, mask, cutoff)
CallContactMap ==
    /\ cm_pc = "call"
    /\ IF make_contact_map_raises(ca_coors)
       THEN /\ cm_pc' = "ValueError"
            /\ cont_map' = cont_map
       ELSE /\ cm_pc' = "ret"
            /\ cont_map' = make_contact_map(ca_coors, mask, cutoff)
    /\ UNCHANGED <<ca_coors, mask, cutoff>>
    /\ UNCHANGED <<encVars, dsVars, valVars, mainVars>>

(***************************************************************************)
(* make_a_matrix and the array operations build_one uses                   *)
(***************************************************************************)
Abs(x) == IF x < 0 THEN -x ELSE x

\* make_a_matrix(idxs, self_loop=False)
make_a_matrix_no_loop(ix) ==
    [r \in DOMAIN ix |-> [c \in DOMAIN ix |-> IF Abs(ix[r] - ix[c]) = 1 THEN 1 ELSE 0]]

\* make_a_matrix(idxs) with self_loop=True: 1.0 * (abs(difference) == 1) + eye
make_a_matrix(ix) ==
    [r \in DOMAIN ix |-> [c \in DOMAIN ix |->
        (IF Abs(ix[r] - ix[c]) = 1 THEN 1 ELSE 0) + (IF r = c THEN 1 ELSE 0)]]

\* the sum of the first k entries of the array a
RECURSIVE SumTo(_, _)
SumTo(a, k) == IF k = 0 THEN 0 ELSE SumTo(a, k - 1) + a[k - 1]

\* np.sum(a_mat, axis=1): the row sums
row_sums(a_mat) == [r \in DOMAIN a_mat |-> SumTo(a_mat[r], Len0(a_mat[r]))]

\* make_d_matrix(a_mat): np.eye * row_sums ** (-0.5), the row sums broadcast
\* along the columns. An entry is <<"rsqrt", s>> for s ** (-0.5) of a row
\* sum s > 0 and <<"zero", 0>> off the diagonal; a row sum of 0 gives inf on
\* the diagonal and 0 * inf = nan in the rest of its column
make_d_matrix(a_mat) ==
    LET s == row_sums(a_mat)
    IN  [r \in DOMAIN a_mat |-> [c \in DOMAIN a_mat |->
            IF s[c] = 0
            THEN (IF r = c THEN <<"inf", 0>> ELSE <<"nan", 0>>)
            ELSE (IF r = c THEN <<"rsqrt", s[c]>> ELSE <<"zero", 0>>)]]

\* 1.0 * cont_map: a boolean matrix as a 0/1 matrix
Times1(cm) == [r \in DOMAIN cm |-> [c \in DOMAIN cm |-> IF cm[r][c] THEN 1 ELSE 0]]

\* ca_coors * 0.01, for coordinates that are multiples of 100
Scale001(coors) ==
    [k \in DOMAIN coors |-> <<coors[k][1] \div 100, coors[k][2] \div 100, coors[k][3] \div 100>>]

\* np.arange(k)
arange(k) == [j \in Idx(k) |-> j]

\* the arrays that hold each element of the set S exactly once: what
\* rn.permutation returns on an array whose elements are S, and what
\* DataFrame.sample(k) can keep of the rows S when it is cut to length k
Orders(S) == {p \in [Idx(Cardinality(S)) -> S] : \A x, y \in DOMAIN p : p[x] = p[y] => x = y}

\* a[0:k], Python slicing: a negative k counts from the end
Slice0(a, k) ==
    LET len == Len0(a)
        stop == IF k < 0 THEN (IF len + k < 0 THEN 0 ELSE len + k)
                ELSE (IF k > len THEN len ELSE k)
    IN  [j \in Idx(stop) |-> a[j]]

\* np.concatenate((a, b))
concatenate(a, b) ==
    [j \in Idx(Len0(a) + Len0(b)) |-> IF j < Len0(a) THEN a[j] ELSE b[j - Len0(a)]]

\* list.append(x), and create_dataset under the next key of the h5 file
append(a, x) == [j \in Idx(Len0(a) + 1) |-> IF j < Len0(a) THEN a[j] ELSE x]

\* a[ix] with an integer index array raises IndexError on an index out of bounds
take_raises(a, ix) == \E j \in DOMAIN ix : ix[j] \notin DOMAIN a

\* a[ix]
take(a, ix) == [j \in DOMAIN ix |-> a[ix[j]]]

\* the sort in descending order
argsort_desc(a) ==
    {p \in Orders(DOMAIN a) : \A x, y \in DOMAIN p : x < y => a[p[x]] >= a[p[y]]}

\* np.argsort(a): the orders of the positions that sort the values; one order
\* when the values are distinct, any of them on ties
argsort(a) ==
    {p \in Orders(DOMAIN a) : \A x, y \in DOMAIN p : x < y => a[p[x]] <= a[p[y]]}

(***************************************************************************)
(* GCNDataset                                                              *)
(***************************************************************************)
\* the largest buffer capacity max_buf_size
MaxBuf == 2

\* the largest number of samples drawn at random and stored: the count n asked
\* of a synthetic dataset, and the rows of a record store without coordinates
MaxN == 1

\* the largest number of rows of a record store with coordinates
MaxRows == 2

\* a row of the record store: its len, its standard flag, its CA_coors (in the
\* store's unit, 0.01 of the cutoff's) and its mask; the columns standard and
\* CA_coors/mask count only when the store has them
Row(len, std, spacing, msk) ==
    [len |-> len, standard |-> std,
     CA_coors |-> [k \in Idx(len) |-> <<spacing * k, 0, 0>>],
     mask |-> msk]

\* the rows a record store with coordinates is filled from: successive
\* residues 3.00 apart (in contact), or exactly 4.00 apart (at the cutoff), or
\* with a masked-out residue
Catalogue ==
    { Row(1, TRUE, 300, [k \in Idx(1) |-> TRUE]),
      Row(2, TRUE, 400, [k \in Idx(2) |-> TRUE]),
      Row(2, FALSE, 300, [k \in Idx(2) |-> k # 0]),
      Row(3, TRUE, 300, [k \in Idx(3) |-> TRUE]) }

\* the rows a record store without coordinates is filled from
LenRows == {Row(len, TRUE, 0, Empty) : len \in 1 .. 3}

\* the record stores with coordinates
CoorTables ==
    UNION { [rows : [Idx(k) -> Catalogue], has_standard : BOOLEAN, has_coors : {TRUE}]
            : k \in 0 .. MaxRows }

\* the record stores with the columns len and seq alone
LenTables ==
    UNION { [rows : [Idx(k) -> LenRows], has_standard : {FALSE}, has_coors : {FALSE}]
            : k \in 0 .. MaxN }

NoTable == [rows |-> Empty, has_standard |-> FALSE, has_coors |-> FALSE]

\* pd.read_hdf(...).query("len >= {} and len <= {}"), then .query("standard")
\* when the store has that column: the rows kept, in the store's order
Keeps(t, rng, k) ==
    /\ t.rows[k].len >= rng[1]
    /\ t.rows[k].len <= rng[2]
    /\ (t.has_standard => t.rows[k].standard)

Kept(t, rng) == {k \in DOMAIN t.rows : Keeps(t, rng, k)}

\* the position in the store of the j-th kept row
NthKept(t, rng, j) ==
    CHOOSE k \in Kept(t, rng) : Cardinality({x \in Kept(t, rng) : x < k}) = j

query(t, rng) == [j \in Idx(Cardinality(Kept(t, rng))) |-> t.rows[NthKept(t, rng, j)]]

\* self.df.sample(k, random_state=self.rn): k of the rows, in any order
sample(rows, k) ==
    {[j \in Idx(k) |-> rows[p[j]]] : p \in Orders(DOMAIN rows)}

\* what build_one can return
BuildResult(kind, my_idxs, my_gt_idxs, my_a_mat, my_seq_len) ==
    [kind |-> kind, my_idxs |-> my_idxs, my_gt_idxs |-> my_gt_idxs,
     my_a_mat |-> my_a_mat, my_seq_len |-> my_seq_len]

\* build_one raised: kind names the exception, my_seq_len the length it had
\* settled on (-1 when it had none yet)
Raised(kind, my_seq_len) == BuildResult(kind, Empty, Empty, {}, my_seq_len)

NotBuilt == Raised("none", -1)

\* the draws of my_seq_len: rn.randint(low, high) raises ValueError when
\* low >= high
randint(low, high) == low .. (high - 1)

\* the padding path of build_one, from the draw of my_dummy_idxs to the return
build_dummy(my_seq_len) ==
    LET my_seq_idxs == arange(my_seq_len)
        pad == max_buf_size - my_seq_len
        \* rn.permutation(np.arange(max_len, 2 * max_buf_size))[0:pad]
        dummies == {Slice0(p, pad) : p \in Orders(seq_len_range[2] .. (2 * max_buf_size - 1))}
        rands == Orders(Idx(max_buf_size))
    IN  UNION { UNION {
          LET both == concatenate(my_seq_idxs, my_dummy_idxs)
          IN  IF take_raises(both, my_rand_idxs)
              THEN {Raised("IndexError", my_seq_len)}
              ELSE IF pad < 0
              \* rn.randint(0, 20, pad) with a negative size
              THEN {Raised("ValueError", my_seq_len)}
              ELSE LET my_idxs == take(both, my_rand_idxs)
                   IN  {BuildResult("ok", my_idxs, Slice0(srt, my_seq_len), {}, my_seq_len)
                          : srt \in argsort(my_idxs)}
          : my_rand_idxs \in rands } : my_dummy_idxs \in dummies }

\* the contact-map path of build_one
build_contact(row) ==
    IF make_contact_map_raises(row.CA_coors)
    THEN {Raised("ValueError", row.len)}
    ELSE LET my_idxs == arange(row.len)
         IN  {BuildResult("ok", my_idxs, Slice0(srt, row.len),
                          {Times1(make_contact_map(Scale001(row.CA_coors), {row.mask},
                                                   DefaultCutoff))},
                          row.len)
                : srt \in argsort(my_idxs)}

\* build_one(idx): every result the call can have
build_one(idx) ==
    IF df_path
    THEN IF table.has_coors
         THEN build_contact(df[idx])
         ELSE build_dummy(df[idx].len)
    ELSE IF seq_len_range[1] >= seq_len_range[2]
         THEN {Raised("ValueError", -1)}
         ELSE UNION {build_dummy(my_seq_len)
                       : my_seq_len \in randint(seq_len_range[1], seq_len_range[2])}

\* the length ranges of a synthetic dataset: min_len 1 or 2, max_len up to
\* twice the buffer, past which no padding id is left
LenRanges == {r \in (1 .. 2) \X (1 .. 2 * MaxBuf) : r[1] <= r[2]}

\* the length ranges of a corpus-backed dataset
CorpusRanges == {<<1, 1>>, <<1, 2>>, <<2, 3>>}

\* nothing returned by __getitem__ yet
NoItem == [idx |-> -1, my_idxs |-> Empty, a_mat |-> Empty, d_mat |-> Empty, gt_idxs |-> Empty]

\* the arguments of the constructor: a synthetic dataset, a record store
\* without coordinates, or one with coordinates
DsNew ==
    /\ h5 \in BOOLEAN
    /\ build_on_the_fly \in BOOLEAN
    /\ ~(h5 /\ build_on_the_fly)
    /\ \/ /\ df_path = FALSE
          /\ table = NoTable
          /\ max_buf_size \in 1 .. MaxBuf
          /\ seq_len_range \in LenRanges
          /\ arg_n \in 0 .. MaxN
       \/ /\ df_path = TRUE
          /\ table \in LenTables
          \* 3 slots: the smallest buffer that pads a row of len = max_len = 2
          /\ max_buf_size \in {MaxBuf, 3}
          /\ seq_len_range \in CorpusRanges
          /\ arg_n \in {0, MaxN}
       \/ /\ df_path = TRUE
          /\ table \in CoorTables
          /\ max_buf_size = MaxBuf
          /\ seq_len_range \in CorpusRanges
          /\ arg_n \in 0 .. (MaxRows + 1)
    /\ n = arg_n
    /\ df = Empty
    /\ idxs = Empty
    /\ gt_idxs = Empty
    /\ build_i = 0
    /\ built = NotBuilt
    /\ item = NoItem
    /\ ds_pc = "new"

DsIdle ==
    /\ max_buf_size = 1
    /\ seq_len_range = <<1, 1>>
    /\ h5 = FALSE
    /\ build_on_the_fly = FALSE
    /\ df_path = FALSE
    /\ table = NoTable
    /\ arg_n = 0
    /\ n = 0
    /\ df = Empty
    /\ idxs = Empty
    /\ gt_idxs = Empty
    /\ build_i = 0
    /\ built = NotBuilt
    /\ item = NoItem
    /\ ds_pc = "idle"

\* the count left as it was asked
clamp_n_asked(k, c) == k

\* self.n when it is not 0 < n <= len(self.df): the number of rows kept
clamp_n(k, c) == c

\* GCNDataset.__init__ up to the call of build_all: the rows are filtered and
\* the count is settled
GCNDataset_init ==
    /\ ds_pc = "new"
    /\ IF df_path
       THEN LET rows == query(table, seq_len_range)
            IN  IF 0 < n /\ n <= Len0(rows)
                THEN /\ df' \in sample(rows, n)
                     /\ n' = n
                ELSE /\ df' = rows
                     /\ n' = clamp_n(n, Len0(rows))
       ELSE /\ df' = df
            /\ n' = n
    /\ build_i' = 0
    /\ ds_pc' = IF build_on_the_fly \/ n' <= 0 THEN "ready" ELSE "build_all"
    /\ UNCHANGED <<table, df_path, arg_n, max_buf_size, seq_len_range, h5, build_on_the_fly,
                   idxs, gt_idxs, built, item>>
    /\ UNCHANGED <<encVars, cmVars, valVars, mainVars>>

\* one round of the loop of build_all: build_one(i), then the arrays are
\* appended to the lists or written to the h5 file; after the last round the
\* constructor returns
build_all ==
    /\ ds_pc = "build_all"
    /\ \E r \in build_one(build_i) :
          /\ built' = r
          /\ IF r.kind = "ok"
             THEN /\ idxs' = append(idxs, r.my_idxs)
                  /\ gt_idxs' = append(gt_idxs, r.my_gt_idxs)
                  /\ build_i' = build_i + 1
                  /\ ds_pc' = IF build_i + 1 < n THEN "build_all" ELSE "ready"
             ELSE /\ ds_pc' = r.kind
                  /\ UNCHANGED <<idxs, gt_idxs, build_i>>
    /\ UNCHANGED <<table, df_path, arg_n, n, max_buf_size, seq_len_range, h5, build_on_the_fly,
                   df, item>>
    /\ UNCHANGED <<encVars, cmVars, valVars, mainVars>>

\* what __getitem__(idx) returns of the sample r that build_one built anew:
\* a_mat is build_one's unless that is None
item_fly(idx, r) ==
    LET a_mat == IF r.my_a_mat = {}
                 THEN make_a_matrix(r.my_idxs)
                 ELSE CHOOSE m \in r.my_a_mat : TRUE
    IN  [idx |-> idx, my_idxs |-> r.my_idxs, a_mat |-> a_mat,
         d_mat |-> make_d_matrix(a_mat), gt_idxs |-> r.my_gt_idxs]

\* what __getitem__(idx) returns of a stored sample: a_mat is None, so it is
\* made from the stored idxs
item_stored(idx) ==
    LET a_mat == make_a_matrix(idxs[idx])
    IN  [idx |-> idx, my_idxs |-> idxs[idx], a_mat |-> a_mat,
         d_mat |-> make_d_matrix(a_mat), gt_idxs |-> gt_idxs[idx]]

\* __getitem__(idx) in on-the-fly mode: the sample is built anew, and its
\* a_mat is build_one's when that is not None
getitem_fly ==
    /\ ds_pc = "ready"
    /\ build_on_the_fly
    /\ \E idx \in Idx(n) : \E r \in build_one(idx) :
          /\ built' = r
          /\ IF r.kind = "ok"
             THEN /\ item' = item_fly(idx, r)
                  /\ ds_pc' = ds_pc
             ELSE /\ ds_pc' = r.kind
                  /\ item' = item
    /\ UNCHANGED <<table, df_path, arg_n, n, max_buf_size, seq_len_range, h5, build_on_the_fly,
                   df, idxs, gt_idxs, build_i>>
    /\ UNCHANGED <<encVars, cmVars, valVars, mainVars>>

\* __getitem__(idx) in h5 or in-memory mode: the stored arrays are read back
\* and a_mat is made from the stored idxs
getitem_stored ==
    /\ ds_pc = "ready"
    /\ ~build_on_the_fly
    /\ \E idx \in Idx(n) :
          item' = item_stored(idx)
    /\ UNCHANGED <<table, df_path, arg_n, n, max_buf_size, seq_len_range, h5, build_on_the_fly,
                   df, idxs, gt_idxs, build_i, built, ds_pc>>
    /\ UNCHANGED <<encVars, cmVars, valVars, mainVars>>

(***************************************************************************)
(* val                                                                     *)
(***************************************************************************)
\* the largest number of samples of a validation set
MaxVal == 2

\* the residue classes the nodes' features are drawn from: the first and the
\* last of the 20
ClassSample == {0, 19}

\* scores are fractions <<num, den>> in lowest terms, so that sums and the
\* mean are exact
RECURSIVE Gcd(_, _)
Gcd(a, b) == IF b = 0 THEN a ELSE Gcd(b, a % b)

Frac(num, den) == LET g == Gcd(num, den) IN <<num \div g, den \div g>>

FracAdd(x, y) == Frac(x[1] * y[2] + y[1] * x[2], x[2] * y[2])

\* a[::-1]
flip(a) == [j \in DOMAIN a |-> a[Len0(a) - 1 - j]]

\* np.sum(1 * (a == b))
matches(a, b) == Cardinality({j \in DOMAIN a : a[j] = b[j]})

\* the smaller of the two
minimum(a, b) == IF a <= b THEN a ELSE b

\* np.maximum(a, b)
maximum(a, b) == IF a >= b THEN a ELSE b

\* the score of one sample: acc = np.maximum(acc_f, acc_r) / float(len(gt_idxs))
acc_of(ix, gt) == Frac(maximum(matches(ix, gt), matches(ix, flip(gt))), Len0(gt))

\* the substitution of the reverse_seq heuristic: idxs[mask] = rev_idxs[mask],
\* where cls[q] is the class with the largest feature of node q
substitute(ix, rev_idxs, gt, cls) ==
    [j \in DOMAIN ix |->
        IF cls[gt[j]] = cls[rev_idxs[j]] /\ cls[gt[j]] # cls[ix[j]]
        THEN rev_idxs[j] ELSE ix[j]]

\* acc_all / len(dataset) raises ZeroDivisionError on an empty dataset
mean_raises(len) == len = 0

mean(total, len) == Frac(total[1], total[2] * len)

ValCall ==
    /\ reverse_seq \in BOOLEAN
    /\ val_j = 0
    /\ val_idxs = Empty
    /\ acc_all = <<0, 1>>
    /\ val_acc = <<0, 1>>
    /\ all_forward = TRUE
    /\ all_exact = TRUE
    /\ val_pc = "call"

ValIdle ==
    /\ reverse_seq = FALSE
    /\ val_j = 0
    /\ val_idxs = Empty
    /\ acc_all = <<0, 1>>
    /\ val_acc = <<0, 1>>
    /\ all_forward = TRUE
    /\ all_exact = TRUE
    /\ val_pc = "idle"

\* val is entered with the dataset constructed: acc_all = 0, and the loop
\* starts
val_enter ==
    /\ val_pc = "call"
    /\ ds_pc = "ready"
    /\ acc_all' = <<0, 1>>
    /\ val_j' = 0
    /\ val_pc' = "loop"
    /\ UNCHANGED <<reverse_seq, val_idxs, val_acc, all_forward, all_exact>>
    /\ UNCHANGED <<encVars, cmVars, dsVars, mainVars>>

\* x, f, a_mat, d_mat, gt_idxs = dataset[j]
val_getitem ==
    /\ val_pc = "loop"
    /\ val_j < n
    /\ IF build_on_the_fly
       THEN \E r \in build_one(val_j) :
               /\ built' = r
               /\ IF r.kind = "ok"
                  THEN item' = item_fly(val_j, r) /\ val_pc' = "item"
                  ELSE item' = item /\ val_pc' = r.kind
       ELSE /\ item' = item_stored(val_j)
            /\ built' = built
            /\ val_pc' = "item"
    /\ UNCHANGED <<table, df_path, arg_n, n, max_buf_size, seq_len_range, h5,
                   build_on_the_fly, df, idxs, gt_idxs, build_i, ds_pc>>
    /\ UNCHANGED <<reverse_seq, val_j, val_idxs, acc_all, val_acc, all_forward, all_exact>>
    /\ UNCHANGED <<encVars, cmVars, mainVars>>

\* scores, idxs = model(...): idxs is the argmax of each of the len(gt_idxs)
\* rows of scores over the nodes, so any node for each row
val_forward ==
    /\ val_pc = "item"
    /\ val_idxs' \in [DOMAIN item.gt_idxs -> DOMAIN item.a_mat]
    /\ all_forward' = (all_forward /\ val_idxs' = item.gt_idxs)
    /\ all_exact' = (all_exact /\ (val_idxs' = item.gt_idxs \/ val_idxs' = flip(item.gt_idxs)))
    /\ val_pc' = IF reverse_seq THEN "idxs" ELSE "final"
    /\ UNCHANGED <<reverse_seq, val_j, acc_all, val_acc>>
    /\ UNCHANGED <<encVars, cmVars, dsVars, mainVars>>

\* the reverse_seq heuristic: the model is run on the flipped sequence, and
\* idxs takes rev_idxs where the masks say so
val_reverse ==
    /\ val_pc = "idxs"
    /\ \E rev_idxs \in [DOMAIN item.gt_idxs -> DOMAIN item.a_mat] :
       \E cls \in [DOMAIN item.a_mat -> ClassSample] :
          val_idxs' = substitute(val_idxs, rev_idxs, item.gt_idxs, cls)
    /\ val_pc' = "final"
    /\ UNCHANGED <<reverse_seq, val_j, acc_all, val_acc, all_forward, all_exact>>
    /\ UNCHANGED <<encVars, cmVars, dsVars, mainVars>>

\* acc_f, acc_r, acc, and acc_all = acc_all + acc
val_score ==
    /\ val_pc = "final"
    /\ acc_all' = FracAdd(acc_all, acc_of(val_idxs, item.gt_idxs))
    /\ val_j' = val_j + 1
    /\ val_pc' = "loop"
    /\ UNCHANGED <<reverse_seq, val_idxs, val_acc, all_forward, all_exact>>
    /\ UNCHANGED <<encVars, cmVars, dsVars, mainVars>>

\* after the loop: acc_all = acc_all / len(dataset); return acc_all
val_return ==
    /\ val_pc = "loop"
    /\ val_j >= n
    /\ IF mean_raises(n)
       THEN /\ val_pc' = "ZeroDivisionError"
            /\ val_acc' = val_acc
       ELSE /\ val_pc' = "ret"
            /\ val_acc' = mean(acc_all, n)
    /\ UNCHANGED <<reverse_seq, val_j, val_idxs, acc_all, all_forward, all_exact>>
    /\ UNCHANGED <<encVars, cmVars, dsVars, mainVars>>

\* the validation sets: built on the fly, synthetic with every length up to
\* the buffer's, or corpus-backed without coordinates
DsVal ==
    /\ h5 = FALSE
    /\ build_on_the_fly = TRUE
    /\ \/ /\ df_path = FALSE
          /\ table = NoTable
          /\ max_buf_size = MaxBuf
          /\ seq_len_range = <<1, MaxBuf + 1>>
          /\ arg_n \in 0 .. MaxVal
       \/ /\ df_path = TRUE
          /\ table \in LenTables
          /\ max_buf_size = MaxBuf
          /\ seq_len_range \in CorpusRanges
          /\ arg_n \in {0, MaxVal}
    /\ n = arg_n
    /\ df = Empty
    /\ idxs = Empty
    /\ gt_idxs = Empty
    /\ build_i = 0
    /\ built = NotBuilt
    /\ item = NoItem
    /\ ds_pc = "new"

(***************************************************************************)
(* main and train                                                          *)
(***************************************************************************)
\* the largest number of runs of main, one after the other
MaxRuns == 2

\* the largest n_epoch
MaxEpoch == 2

\* the largest training set
MaxTrain == 2

\* train's parameters log_every and val_every count samples (100 and 2000
\* when left out); the values tried are ones a training set of MaxTrain
\* samples reaches
EveryChoices == {1, 2}

\* the arguments of a run: --model names the checkpoint file (only when there
\* is one), --save names the same file
ArgsChoices ==
    {a \in [model : BOOLEAN, save : BOOLEAN, skip_training : BOOLEAN, n_epoch : 1 .. MaxEpoch]
       : a.model => ckpt # {}}

NoArgs == [model |-> FALSE, save |-> FALSE, skip_training |-> FALSE, n_epoch |-> 1]

\* model.state_dict(): the parameters, and nothing of the attribute seen
state_dict == {params}

MainInit ==
    /\ run = 0
    /\ args = NoArgs
    /\ train_len = 0
    /\ val_len = 0
    /\ log_every = 1
    /\ val_every = 1
    /\ params = 0
    /\ seen = 0
    /\ epoch_i = 0
    /\ sample_j = 0
    /\ log_train = Empty
    /\ ckpt = {}
    /\ saved_seen = -1
    /\ main_pc = "shell"

MainIdle ==
    /\ run = 0
    /\ args = NoArgs
    /\ train_len = 0
    /\ val_len = 0
    /\ log_every = 1
    /\ val_every = 1
    /\ params = 0
    /\ seen = 0
    /\ epoch_i = 0
    /\ sample_j = 0
    /\ log_train = Empty
    /\ ckpt = {}
    /\ saved_seen = -1
    /\ main_pc = "idle"

\* a run of main starts: the arguments are parsed, val_dataset and a fresh
\* model are constructed, and model.seen = 0
main_construct ==
    /\ main_pc = "shell"
    /\ run < MaxRuns
    /\ run' = run + 1
    /\ args' \in ArgsChoices
    /\ val_len' \in 0 .. MaxVal
    /\ params' = 0
    /\ seen' = 0
    /\ main_pc' = "constructed"
    /\ UNCHANGED <<train_len, log_every, val_every, epoch_i, sample_j, log_train, ckpt, saved_seen>>
    /\ UNCHANGED <<encVars, cmVars, dsVars, valVars>>

\* if args.model is not None: model.load_state_dict(torch.load(args.model))
main_load ==
    /\ main_pc = "constructed"
    /\ params' = IF args.model THEN CHOOSE p \in ckpt : TRUE ELSE params
    /\ main_pc' = "loaded"
    /\ UNCHANGED <<run, args, train_len, val_len, log_every, val_every, seen, epoch_i,
                   sample_j, log_train, ckpt, saved_seen>>
    /\ UNCHANGED <<encVars, cmVars, dsVars, valVars>>

\* skip_training, or train_dataset is constructed and train is entered with
\* an empty log
main_train ==
    /\ main_pc = "loaded"
    /\ IF args.skip_training
       THEN /\ main_pc' = "final_val"
            /\ UNCHANGED <<train_len, log_every, val_every, epoch_i, sample_j, log_train>>
       ELSE /\ main_pc' = "train"
            /\ train_len' \in 0 .. MaxTrain
            /\ log_every' \in EveryChoices
            /\ val_every' \in EveryChoices
            /\ epoch_i' = 0
            /\ sample_j' = 0
            /\ log_train' = Empty
    /\ UNCHANGED <<run, args, val_len, params, seen, ckpt, saved_seen>>
    /\ UNCHANGED <<encVars, cmVars, dsVars, valVars>>

\* one sample of train's inner loop: the optimizer steps, model.seen += 1, a
\* log record every log_every samples, a validation pass every val_every
train_sample ==
    /\ main_pc = "train"
    /\ sample_j < train_len
    /\ params' = params + 1
    /\ seen' = seen + 1
    /\ log_train' = IF (sample_j + 1) % log_every = 0
                    THEN append(log_train, seen')
                    ELSE log_train
    /\ sample_j' = sample_j + 1
    /\ main_pc' = IF (sample_j + 1) % val_every = 0 /\ mean_raises(val_len)
                  THEN "ZeroDivisionError"
                  ELSE "train"
    /\ UNCHANGED <<run, args, train_len, val_len, log_every, val_every, epoch_i, ckpt, saved_seen>>
    /\ UNCHANGED <<encVars, cmVars, dsVars, valVars>>

\* the end of an epoch: the validation pass over val_dataset, then the next
\* epoch, or train returns
train_epoch_end ==
    /\ main_pc = "train"
    /\ sample_j = train_len
    /\ IF mean_raises(val_len)
       THEN /\ main_pc' = "ZeroDivisionError"
            /\ UNCHANGED <<epoch_i, sample_j>>
       ELSE /\ epoch_i' = epoch_i + 1
            /\ sample_j' = 0
            /\ main_pc' = IF epoch_i + 1 < args.n_epoch THEN "train" ELSE "trained"
    /\ UNCHANGED <<run, args, train_len, val_len, log_every, val_every, params, seen,
                   log_train, ckpt, saved_seen>>
    /\ UNCHANGED <<encVars, cmVars, dsVars, valVars>>

\* if args.save: torch.save(model.state_dict(), args.save)
main_save ==
    /\ main_pc = "trained"
    /\ IF args.save
       THEN ckpt' = state_dict /\ saved_seen' = seen
       ELSE UNCHANGED <<ckpt, saved_seen>>
    /\ main_pc' = "final_val"
    /\ UNCHANGED <<run, args, train_len, val_len, log_every, val_every, params, seen,
                   epoch_i, sample_j, log_train>>
    /\ UNCHANGED <<encVars, cmVars, dsVars, valVars>>

\* the validation pass that ends main
main_final_val ==
    /\ main_pc = "final_val"
    /\ main_pc' = IF mean_raises(val_len) THEN "ZeroDivisionError" ELSE "exit"
    /\ UNCHANGED <<run, args, train_len, val_len, log_every, val_every, params, seen,
                   epoch_i, sample_j, log_train, ckpt, saved_seen>>
    /\ UNCHANGED <<encVars, cmVars, dsVars, valVars>>

\* the process ends, normally or on the exception; the checkpoint file stays
main_exit ==
    /\ main_pc \in {"exit", "ZeroDivisionError"}
    /\ main_pc' = "shell"
    /\ UNCHANGED <<run, args, train_len, val_len, log_every, val_every, params, seen,
                   epoch_i, sample_j, log_train, ckpt, saved_seen>>
    /\ UNCHANGED <<encVars, cmVars, dsVars, valVars>>

(***************************************************************************)
(* Specifications                                                          *)
(***************************************************************************)
InitEncode == EncInit /\ CmIdle /\ DsIdle /\ ValIdle /\ MainIdle

NextEncode == Encode \/ Decode

SpecEncode == InitEncode /\ [][NextEncode]_vars

InitContact == EncIdle /\ CmInit /\ DsIdle /\ ValIdle /\ MainIdle

NextContact == CallContactMap

SpecContact == InitContact /\ [][NextContact]_vars

Init == EncIdle /\ CmIdle /\ DsNew /\ ValIdle /\ MainIdle

Next == GCNDataset_init \/ build_all \/ getitem_fly \/ getitem_stored

Spec == Init /\ [][Next]_vars

InitVal == EncIdle /\ CmIdle /\ DsVal /\ ValCall /\ MainIdle

NextVal ==
    \/ GCNDataset_init
    \/ val_enter
    \/ val_getitem
    \/ val_forward
    \/ val_reverse
    \/ val_score
    \/ val_return

SpecVal == InitVal /\ [][NextVal]_vars

InitMain == EncIdle /\ CmIdle /\ DsIdle /\ ValIdle /\ MainInit

NextMain ==
    \/ main_construct
    \/ main_load
    \/ main_train
    \/ train_sample
    \/ train_epoch_end
    \/ main_save
    \/ main_final_val
    \/ main_exit

SpecMain == InitMain /\ [][NextMain]_vars

(***************************************************************************)
(* Properties                                                              *)
(***************************************************************************)
\* whether the array a holds no value twice
Distinct(a) == \A x, y \in DOMAIN a : a[x] = a[y] => x = y

\* C1: in every sample build_one returns, ground_truth_order (my_gt_idxs) has
\* exactly seq_len entries, no two of them equal, and its k-th entry is the
\* physical position whose slot_order (my_idxs) entry is k; so it holds the
\* positions of the real nodes and no padding position.
C1_GroundTruthOrder ==
    built.kind = "ok" =>
        /\ Len0(built.my_gt_idxs) = built.my_seq_len
        /\ Distinct(built.my_gt_idxs)
        /\ \A k \in Idx(built.my_seq_len) :
              /\ built.my_gt_idxs[k] \in DOMAIN built.my_idxs
              /\ built.my_idxs[built.my_gt_idxs[k]] = k
        /\ {built.my_gt_idxs[k] : k \in Idx(built.my_seq_len)}
             = {q \in DOMAIN built.my_idxs : built.my_idxs[q] \in Idx(built.my_seq_len)}

\* a padded sample whose one real node was moved to the second slot
C1_Witness ==
    /\ built.kind = "ok"
    /\ built.my_seq_len = 1
    /\ Len0(built.my_idxs) = 2
    /\ built.my_idxs[0] >= seq_len_range[2]
    /\ built.my_gt_idxs[0] = 1

\* C2: whenever seq_len <= M, a call of build_one that pads completes, and
\* slot_order (my_idxs) has exactly M entries, no two equal: each real id
\* 0..seq_len-1 once, the other M - seq_len entries padding ids from max_len
\* upwards (the range the padding ids are drawn from always supplies them).
C2_SlotOrder ==
    (/\ built.kind # "none"
     /\ ~(df_path /\ table.has_coors)
     /\ built.my_seq_len \in 0 .. max_buf_size)
    =>
        /\ built.kind = "ok"
        /\ Len0(built.my_idxs) = max_buf_size
        /\ Distinct(built.my_idxs)
        /\ \A k \in Idx(built.my_seq_len) : \E q \in DOMAIN built.my_idxs : built.my_idxs[q] = k
        /\ \A q \in DOMAIN built.my_idxs :
              built.my_idxs[q] \in Idx(built.my_seq_len) \/ built.my_idxs[q] >= seq_len_range[2]

\* C3: seq_len lies in [min_len, max_len) for every sample (of a range with
\* min_len < max_len): no row kept from the record store has len = max_len,
\* and no sample built has seq_len = max_len.
C3_HalfOpenRange ==
    seq_len_range[1] < seq_len_range[2] =>
        /\ \A k \in DOMAIN df :
              df[k].len >= seq_len_range[1] /\ df[k].len < seq_len_range[2]
        /\ built.kind = "ok" =>
              built.my_seq_len >= seq_len_range[1] /\ built.my_seq_len < seq_len_range[2]

\* the contact map of the row the sample idx is built from
ContactMapOf(idx) ==
    Times1(make_contact_map(Scale001(df[idx].CA_coors), {df[idx].mask}, DefaultCutoff))

\* C4: when the record store has coordinates, the adjacency matrix that
\* __getitem__ returns is the contact map of the sample's row, in every
\* storage mode.
C4_ContactAdjacency ==
    (df_path /\ table.has_coors /\ item.idx >= 0) => item.a_mat = ContactMapOf(item.idx)

\* C5: for a letter a2id accepts, in either case, id2a(a2id(letter)) is the
\* upper-case letter when it is one of the 20 standard residue letters, and
\* the unknown placeholder 'X' when the letter is 'X'.
C5_RoundTrip ==
    enc_pc = "decoded" =>
        /\ upper(aa) \in StandardLetters => letter = upper(aa)
        /\ upper(aa) = UnknownLetter => letter = UnknownLetter

\* C8: a corpus-backed dataset asked for n > 0 samples of c filtered rows has
\* length min(n, c), and a row for every index below its length.
C8_LengthClamped ==
    (df_path /\ ds_pc # "new" /\ arg_n > 0) =>
        LET c == Len0(query(table, seq_len_range))
        IN  /\ n = (IF arg_n <= c THEN arg_n ELSE c)
            /\ DOMAIN df = Idx(n)

\* more samples asked than the rows kept, and some are kept
C8_Witness ==
    /\ df_path
    /\ ds_pc = "ready"
    /\ Len0(query(table, seq_len_range)) = 2
    /\ arg_n = 3
    /\ n = 2
    /\ item.idx = 1

\* C9: entry (r, c) of the contact map is True exactly when r and c are both
\* valid and strictly closer than the cutoff, or r = c is masked out; a pair
\* exactly at the cutoff is False; the map is symmetric and its diagonal is
\* all True.
C9_ContactMap ==
    cm_pc = "ret" =>
        LET valid(k) == mask = {} \/ (CHOOSE m \in mask : TRUE)[k]
        IN  \A r, c \in DOMAIN ca_coors :
              /\ cont_map[r][c] =
                    (\/ /\ valid(r)
                        /\ valid(c)
                        /\ SqDist(ca_coors[r], ca_coors[c]) < cutoff * cutoff
                     \/ r = c /\ ~valid(r))
              /\ (r # c /\ SqDist(ca_coors[r], ca_coors[c]) = cutoff * cutoff)
                    => ~cont_map[r][c]
              /\ (r # c /\ (~valid(r) \/ ~valid(c))) => ~cont_map[r][c]
              /\ cont_map[r][c] = cont_map[c][r]
              /\ cont_map[r][r]

\* two valid points exactly at the cutoff, out of contact, beside a masked-out
\* point that keeps its self-loop, and two valid points in contact
C9_Witness ==
    /\ cm_pc = "ret"
    /\ mask # {}
    /\ LET m == CHOOSE x \in mask : TRUE
       IN  \E r, c, k \in DOMAIN ca_coors :
             /\ r # c /\ m[r] /\ m[c]
             /\ SqDist(ca_coors[r], ca_coors[c]) = cutoff * cutoff
             /\ ~cont_map[r][c]
             /\ ~m[k] /\ cont_map[k][k]
             /\ SqDist(ca_coors[k], ca_coors[r]) < cutoff * cutoff
             /\ ~cont_map[k][r]

\* the accuracy val returns is in [0, 1], and it is the mean of the sum of
\* the samples' scores
AccuracyInRange ==
    /\ val_acc[1] >= 0
    /\ val_acc[2] > 0
    /\ val_acc[1] <= val_acc[2]
    /\ val_acc[1] * acc_all[2] * n = acc_all[1] * val_acc[2]

\* the score of the first sample is max(forward matches, reverse matches) / seq_len
FirstScore ==
    LET gt == item.gt_idxs
        fwd == Cardinality({k \in DOMAIN gt : val_idxs[k] = gt[k]})
        rev == Cardinality({k \in DOMAIN gt : val_idxs[k] = gt[Len0(gt) - 1 - k]})
    IN  acc_all[1] * Len0(gt) = acc_all[2] * (IF fwd >= rev THEN fwd ELSE rev)

\* C6 as stated: on a non-empty validation set the accuracy val returns is in
\* [0, 1], the mean of per-sample scores max(forward, reverse) / seq_len, and
\* exactly 1 when every order the model returned was the sample's
\* ground_truth_order or its exact reverse.
C6_AsStated ==
    /\ val_pc = "ret" => AccuracyInRange /\ (all_exact => val_acc = <<1, 1>>)
    /\ (val_pc = "loop" /\ val_j = 1) => FirstScore

\* C6 amended: the accuracy is exactly 1 when every order the model returned
\* was the sample's ground_truth_order, or, with reverse_seq off, that or its
\* exact reverse.
C6_Accuracy ==
    /\ val_pc = "ret" =>
          /\ AccuracyInRange
          /\ (all_forward \/ (~reverse_seq /\ all_exact)) => val_acc = <<1, 1>>
    /\ (val_pc = "loop" /\ val_j = 1) => FirstScore

\* two samples scored, one of them predicted in exact reverse and not forward,
\* with accuracy 1
C6_Witness ==
    /\ val_pc = "ret"
    /\ n = 2
    /\ ~reverse_seq
    /\ all_exact
    /\ ~all_forward
    /\ val_acc = <<1, 1>>

\* C7: when the filter keeps no row of the record store the dataset has
\* length 0, and val over it ends normally, raising nothing.
C7_EmptyIsNoOp ==
    (df_path /\ ds_pc # "new" /\ Len0(query(table, seq_len_range)) = 0) =>
        /\ n = 0
        /\ val_pc \in {"call", "loop", "ret"}

\* C10: model.seen grows by exactly one per training sample and never
\* shrinks, and a checkpoint carries it: once a later run has loaded the
\* checkpoint into its fresh model, model.seen is what it was when the
\* checkpoint was saved.
C10_SeenPersisted ==
    (main_pc = "loaded" /\ args.model) => seen = saved_seen

\* C11: the adjacency matrix of every sample __getitem__ returns, in any data
\* source and storage mode, is symmetric with diagonal all 1; so every row
\* sum is at least 1, and the degree matrix make_d_matrix makes of it holds
\* no inf and no nan.
C11_SelfLoops ==
    item.idx >= 0 =>
        /\ DOMAIN item.a_mat = DOMAIN item.my_idxs
        /\ \A r, c \in DOMAIN item.a_mat : item.a_mat[r][c] = item.a_mat[c][r]
        /\ \A r \in DOMAIN item.a_mat :
              /\ item.a_mat[r][r] = 1
              /\ row_sums(item.a_mat)[r] >= 1
              /\ item.d_mat[r][r] = <<"rsqrt", row_sums(item.a_mat)[r]>>
        /\ \A r, c \in DOMAIN item.d_mat : item.d_mat[r][c][1] \notin {"inf", "nan"}

\* a contact-map sample built on the fly, not the chain adjacency of its
\* slot order, whose masked-out node has no neighbour but itself
C11_Witness ==
    /\ df_path
    /\ table.has_coors
    /\ build_on_the_fly
    /\ item.idx >= 0
    /\ item.a_mat # make_a_matrix(item.my_idxs)
    /\ \E r \in DOMAIN item.a_mat :
          /\ ~df[item.idx].mask[r]
          /\ row_sums(item.a_mat)[r] = 1
          /\ item.d_mat[r][r] = <<"rsqrt", 1>>

\* C12: in every sample whose adjacency is the chain adjacency of its slot
\* order (synthetic source, or record store without coordinates, of a range
\* with min_len < max_len), two distinct real nodes are adjacent exactly when
\* their ids differ by 1, and no padding node is adjacent to a real node:
\* every padding id is at least 2 away from every real id.
C12_ChainAdjacency ==
    (/\ item.idx >= 0
     /\ ~(df_path /\ table.has_coors)
     /\ seq_len_range[1] < seq_len_range[2])
    =>
        LET seq_len == Len0(item.gt_idxs)
            real(q) == item.my_idxs[q] < seq_len
        IN  \A r, c \in DOMAIN item.my_idxs :
              /\ (r # c /\ real(r) /\ real(c)) =>
                    (item.a_mat[r][c] = 1 <=> Abs(item.my_idxs[r] - item.my_idxs[c]) = 1)
              /\ (real(r) /\ ~real(c)) =>
                    /\ item.a_mat[r][c] = 0
                    /\ item.a_mat[c][r] = 0
                    /\ Abs(item.my_idxs[r] - item.my_idxs[c]) >= 2

====
